---------------------------- MODULE Spec2Model ----------------------------
(***************************************************************************)
(* TasteFusion backend (src/backend/main.py): the in-memory meal store,    *)
(* the taste-profile analysis, the prompt construction and the two recipe  *)
(* generation handlers, as a state machine.                                *)
(*                                                                         *)
(* The handlers are `async def` coroutines served by one event loop: a     *)
(* handler runs without interruption from one `await` to the next, so one  *)
(* action of the model is one such stretch of a handler.                   *)
(*                                                                         *)
(* Optional[T] values are <<>> for None and <<v>> for a value v.           *)
(* A float quotient a / b is the fraction [num, den] in lowest terms.      *)
(***************************************************************************)
EXTENDS Integers, Sequences, FiniteSets, TLC

VARIABLES
    meals_db,   \* the module-level list meals_db
    now,        \* the clock read by Meal.timestamp's default_factory
    adds,       \* history: the Meal records appended by add_meal so far
    removed,    \* history: TRUE once delete_meal has popped a record
    before,     \* history: meals_db as the last request served found it
    resp,       \* the last meal-store or profile request and its response
    gen,        \* the frame of the generate_fusion_recipe request
    wk          \* the frame of the generate_weekly_menu request

vars == <<meals_db, now, adds, removed, before, resp, gen, wk>>

----------------------------------------------------------------------------
\* Bounds of the model

\* the meal store on its own: a meal is added while the store holds fewer
\* records than MaxMeals and the clock is below MaxClock
MaxMeals == 3
MaxClock == 4
\* a generation request among adds and removes: a meal is added while the
\* store holds fewer records than this and the clock is below it
MaxStored == 2
\* the profile analysis is applied to a prefix of SampleHistory followed by
\* up to this many records of ProfileMenu, in any order
MaxExtra == 3

----------------------------------------------------------------------------
\* Generic helpers (Python built-ins)

None == <<>>
Some(v) == <<v>>

Range(s) == {s[i] : i \in 1..Len(s)}

Min(a, b) == IF a < b THEN a ELSE b

SeqsUpTo(S, n) == UNION {[1..k -> S] : k \in 0..n}

RECURSIVE GCD(_, _)
GCD(a, b) == IF b = 0 THEN a ELSE GCD(b, a % b)

\* a / b on a non-negative int a and a positive int b
Div(a, b) == [num |-> a \div GCD(a, b), den |-> b \div GCD(a, b)]

\* the float literal 0.5
Half == [num |-> 1, den |-> 2]

\* s[:k]
Take(s, k) == SubSeq(s, 1, Min(k, Len(s)))

\* s[-k:]
Last(s, k) == SubSeq(s, Len(s) - Min(k, Len(s)) + 1, Len(s))

\* [m for m in meals if m.meal_type == t]
RECURSIVE OfType(_, _)
OfType(meals, t) ==
    IF meals = <<>> THEN <<>>
    ELSE IF Head(meals).meal_type = t THEN <<Head(meals)>> \o OfType(Tail(meals), t)
    ELSE OfType(Tail(meals), t)

\* sep.join(parts)
RECURSIVE Join(_, _)
Join(parts, sep) ==
    IF parts = <<>> THEN ""
    ELSE IF Len(parts) = 1 THEN parts[1]
    ELSE parts[1] \o sep \o Join(Tail(parts), sep)

----------------------------------------------------------------------------
\* Data models

MaxNameLen == 200
MaxCuisineLen == 100

\* a slip: no pattern on meal_type
AnyMealType(t) == TRUE

\* pattern="^(home|outside)$"
MealTypePattern(t) == t \in {"home", "outside"}

\* the constraints MealInput and Meal both declare
ValidMealFields(m) ==
    /\ Len(m.name) >= 1 /\ Len(m.name) <= MaxNameLen
    /\ Len(m.cuisine) >= 1 /\ Len(m.cuisine) <= MaxCuisineLen
    /\ MealTypePattern(m.meal_type)

\* Meal(name=..., ..., notes=...) with timestamp from datetime.now
Meal(meal_input, t) ==
    [name |-> meal_input.name,
     cuisine |-> meal_input.cuisine,
     ingredients |-> meal_input.ingredients,
     flavors |-> meal_input.flavors,
     meal_type |-> meal_input.meal_type,
     restaurant_name |-> meal_input.restaurant_name,
     notes |-> meal_input.notes,
     timestamp |-> t]

TasteProfile(fc, pf, ci, ratio, n) ==
    [favorite_cuisines |-> fc,
     preferred_flavors |-> pf,
     common_ingredients |-> ci,
     home_vs_outside_ratio |-> ratio,
     meal_count |-> n]

----------------------------------------------------------------------------
\* get_taste_profile

TopCuisines == 5
TopFlavors == 5
TopIngredients == 10

\* d[k] = d.get(k, 0) + 1 on a dict kept as its items in insertion order
RECURSIVE DictInc(_, _)
DictInc(d, k) ==
    IF d = <<>> THEN <<<<k, 1>>>>
    ELSE IF Head(d)[1] = k THEN <<<<k, Head(d)[2] + 1>>>> \o Tail(d)
    ELSE <<Head(d)>> \o DictInc(Tail(d), k)

\* for k in keys: d[k] = d.get(k, 0) + 1
RECURSIVE DictIncAll(_, _)
DictIncAll(d, keys) ==
    IF keys = <<>> THEN d ELSE DictIncAll(DictInc(d, Head(keys)), Tail(keys))

\* the place of item in a list already sorted by count descending: behind
\* every entry whose count is at least its own
RECURSIVE InsertDesc(_, _)
InsertDesc(sorted, item) ==
    IF sorted = <<>> THEN <<item>>
    ELSE IF Head(sorted)[2] >= item[2]
         THEN <<Head(sorted)>> \o InsertDesc(Tail(sorted), item)
         ELSE <<item>> \o sorted

RECURSIVE SortFrom(_, _)
SortFrom(acc, items) ==
    IF items = <<>> THEN acc
    ELSE SortFrom(InsertDesc(acc, Head(items)), Tail(items))

\* a plausible slip: ascending sort, then reversed (equal counts come out in
\* reverse order of first appearance)
RECURSIVE ReverseSeq(_)
ReverseSeq(s) == IF s = <<>> THEN <<>> ELSE ReverseSeq(Tail(s)) \o <<Head(s)>>

SortedByCountReversed(items) == SortFrom(<<>>, ReverseSeq(items))

\* sorted(items, key=lambda x: x[1], reverse=True): stable, descending
SortedByCountDesc(items) == SortFrom(<<>>, items)

\* [c[0] for c in top]
Keys(items) == [i \in 1..Len(items) |-> items[i][1]]

\* a slip: the other meal type is counted
IsOutside(meal) == meal.meal_type = "outside"

\* meal.meal_type == "home"
IsHome(meal) == meal.meal_type = "home"

RECURSIVE CountMeals(_, _, _, _, _)
CountMeals(meals, cuisines, flavors, ingredients, home_count) ==
    IF meals = <<>>
    THEN [cuisines |-> cuisines, flavors |-> flavors,
          ingredients |-> ingredients, home_count |-> home_count]
    ELSE LET meal == Head(meals) IN
         CountMeals(Tail(meals),
                    DictInc(cuisines, meal.cuisine),
                    DictIncAll(flavors, meal.flavors),
                    DictIncAll(ingredients, meal.ingredients),
                    IF IsHome(meal) THEN home_count + 1 ELSE home_count)

get_taste_profile(db) ==
    IF db = <<>>
    THEN TasteProfile(<<>>, <<>>, <<>>, Half, 0)
    ELSE LET c == CountMeals(db, <<>>, <<>>, <<>>, 0)
             top_cuisines == Take(SortedByCountDesc(c.cuisines), TopCuisines)
             top_flavors == Take(SortedByCountDesc(c.flavors), TopFlavors)
             top_ingredients == Take(SortedByCountDesc(c.ingredients), TopIngredients)
         IN  TasteProfile(Keys(top_cuisines), Keys(top_flavors), Keys(top_ingredients),
                          Div(c.home_count, Len(db)), Len(db))

----------------------------------------------------------------------------
\* Requests the endpoints are driven with

MealInputRecord(n, c, i, f, t, r) ==
    [name |-> n, cuisine |-> c, ingredients |-> i, flavors |-> f,
     meal_type |-> t, restaurant_name |-> r, notes |-> None]

\* bodies of POST /meals: valid ones of both meal types, and invalid ones
MealInputs ==
    {MealInputRecord("Dal", "Indian", <<"butter", "cream">>, <<"creamy", "rich">>,
                     "home", None),
     MealInputRecord("Pizza", "Italian", <<"dough", "cream">>, <<"savory">>,
                     "outside", Some("Domino's")),
     MealInputRecord("Eggs", "Indian", <<>>, <<"savory">>, "brunch", None),
     MealInputRecord("", "Thai", <<>>, <<>>, "home", None)}

\* path parameters of DELETE /meals/{index}
Indexes == (0 - 2)..(MaxMeals + 1)

NoResponse == [op |-> "none", status |-> 0]

Idle == [pc |-> "idle"]

----------------------------------------------------------------------------
\* Meal store endpoints

\* a slip: the new record is put in front
InsertFirst(db, meal) == <<meal>> \o db

\* meals_db.append(meal)
AppendMeal(db, meal) == Append(db, meal)

\* POST /meals: the body is validated against MealInput before the handler
\* runs (422 on failure); the handler answers 400 if Meal(...) raises
add_meal(meal_input) ==
    /\ before' = meals_db
    /\ IF ~ValidMealFields(meal_input)
       THEN /\ resp' = [op |-> "add", input |-> meal_input,
                        status |-> 422, error |-> "ValidationError"]
            /\ UNCHANGED <<meals_db, now, adds>>
       ELSE LET meal == Meal(meal_input, now) IN
            IF ~ValidMealFields(meal)
            THEN /\ resp' = [op |-> "add", input |-> meal_input,
                             status |-> 400, error |-> "ValidationError"]
                 /\ UNCHANGED <<meals_db, now, adds>>
            ELSE /\ meals_db' = AppendMeal(meals_db, meal)
                 /\ now' = now + 1
                 /\ adds' = Append(adds, meal)
                 /\ resp' = [op |-> "add", input |-> meal_input,
                             status |-> 201, success |-> TRUE,
                             meal_count |-> Len(meals_db) + 1]
    /\ UNCHANGED <<removed, gen, wk>>

\* GET /meals
get_meals ==
    /\ before' = meals_db
    /\ resp' = [op |-> "list", status |-> 200, meals |-> meals_db,
                count |-> Len(meals_db)]
    /\ UNCHANGED <<meals_db, now, adds, removed, gen, wk>>

\* a slip: only the upper end is checked
BelowLength(db, index) == index < Len(db)

\* not (index < 0 or index >= len(meals_db))
InRange(db, index) == ~(index < 0 \/ index >= Len(db))

\* list.pop(index) raises IndexError outside [-len, len)
PopRaises(db, index) == index >= Len(db) \/ index < 0 - Len(db)

\* list.pop(index) where it does not raise: a negative index counts from the
\* end
PyPop(db, index) ==
    LET i == IF index < 0 THEN index + Len(db) ELSE index
    IN  [item |-> db[i + 1],
         rest |-> SubSeq(db, 1, i) \o SubSeq(db, i + 2, Len(db))]

\* a slip: the last record is popped whatever the index
PopLast(db, index) == PyPop(db, 0 - 1)

\* meals_db.pop(index)
Pop(db, index) == PyPop(db, index)

\* DELETE /meals/{index}: 404 outside the range; an exception of pop would
\* leave the handler uncaught (500)
delete_meal(index) ==
    /\ before' = meals_db
    /\ IF ~InRange(meals_db, index)
       THEN /\ resp' = [op |-> "delete", index |-> index,
                        status |-> 404, error |-> "NotFoundError"]
            /\ UNCHANGED <<meals_db, removed>>
       ELSE IF PopRaises(meals_db, index)
       THEN /\ resp' = [op |-> "delete", index |-> index,
                        status |-> 500, error |-> "IndexError"]
            /\ UNCHANGED <<meals_db, removed>>
       ELSE LET popped == Pop(meals_db, index) IN
            /\ meals_db' = popped.rest
            /\ removed' = TRUE
            /\ resp' = [op |-> "delete", index |-> index,
                        status |-> 200, success |-> TRUE,
                        removed_name |-> popped.item.name]
    /\ UNCHANGED <<now, adds, gen, wk>>

\* GET /profile
get_profile ==
    /\ before' = meals_db
    /\ resp' = [op |-> "profile", status |-> 200,
                profile |-> get_taste_profile(meals_db)]
    /\ UNCHANGED <<meals_db, now, adds, removed, gen, wk>>

----------------------------------------------------------------------------
\* The meal store on its own

Init ==
    /\ meals_db = <<>>
    /\ now = 0
    /\ adds = <<>>
    /\ removed = FALSE
    /\ before = <<>>
    /\ resp = NoResponse
    /\ gen = Idle
    /\ wk = Idle

\* the store and the clock have room for another meal
Room(n, t) == Len(meals_db) < n /\ now < t

Next ==
    \/ \E m \in MealInputs : Room(MaxMeals, MaxClock) /\ add_meal(m)
    \/ get_meals
    \/ \E i \in Indexes : delete_meal(i)
    \/ get_profile

Spec == Init /\ [][Next]_vars

----------------------------------------------------------------------------
\* Properties of the meal store (under Spec)

\* the number of records of db whose meal_type is home
HomeCount(db) == Cardinality({i \in 1..Len(db) : db[i].meal_type = "home"})

\* C1: as long as nothing has been removed, the store holds exactly the
\* records added since the empty start, in the order they were added; a list
\* response returns them in that order and a profile response reports as its
\* meal_count the number of adds.
C1_AddsInOrder ==
    ~removed =>
        /\ meals_db = adds
        /\ resp.op = "list" => (resp.meals = adds /\ resp.count = Len(adds))
        /\ resp.op = "profile" => resp.profile.meal_count = Len(adds)
        /\ (resp.op = "add" /\ resp.status = 201) =>
               /\ resp.meal_count = Len(adds)
               /\ adds[Len(adds)] = Meal(resp.input, adds[Len(adds)].timestamp)

C1_Witness ==
    /\ ~removed
    /\ Len(adds) = 3
    /\ adds[1].name # adds[2].name
    /\ resp.op = "profile"

\* C2: a remove at an index within [0, length) takes out exactly the record
\* at that zero-based position: the store is one shorter, the records before
\* the position are as they were and those behind it have moved up by one,
\* unmodified.
C2_RemoveExactlyOne ==
    (resp.op = "delete" /\ 0 <= resp.index /\ resp.index < Len(before)) =>
        /\ resp.status = 200
        /\ resp.removed_name = before[resp.index + 1].name
        /\ Len(meals_db) = Len(before) - 1
        /\ \A j \in 1..Len(meals_db) :
              meals_db[j] = IF j <= resp.index THEN before[j] ELSE before[j + 1]

C2_Witness ==
    /\ resp.op = "delete"
    /\ resp.status = 200
    /\ resp.index = 1
    /\ Len(before) = 3

\* C3: a remove at an index outside [0, length) (an empty store, an index
\* at or past the length, a negative index) answers 404 NotFoundError and
\* leaves the store as it was.
C3_RemoveOutOfRange ==
    (resp.op = "delete" /\ (resp.index < 0 \/ resp.index >= Len(before))) =>
        /\ resp.status = 404
        /\ resp.error = "NotFoundError"
        /\ meals_db = before

C3_Witness ==
    /\ resp.op = "delete"
    /\ resp.index < 0
    /\ Len(before) >= 2
    /\ resp.status = 404

\* C4: an add whose meal_type is neither home nor outside fails with a
\* ValidationError and leaves the store as it was; every record of the store
\* has meal_type home or outside.
C4_MealTypeValidated ==
    /\ (resp.op = "add" /\ resp.input.meal_type \notin {"home", "outside"}) =>
           /\ resp.status \in {400, 422}
           /\ resp.error = "ValidationError"
           /\ meals_db = before
    /\ \A i \in 1..Len(meals_db) : meals_db[i].meal_type \in {"home", "outside"}

C4_Witness ==
    /\ resp.op = "add"
    /\ resp.input.meal_type = "brunch"
    /\ resp.status = 422
    /\ Len(meals_db) >= 1

\* C6: the profile of an empty store has ratio 0.5, meal_count 0 and three
\* empty lists; the profile of a non-empty store has as ratio the number of
\* home meals over the number of meals: 1.0 when all are home, 0.0 when all
\* are outside.
C6_HomeRatio ==
    resp.op = "profile" =>
        LET p == resp.profile IN
        IF meals_db = <<>>
        THEN /\ p.home_vs_outside_ratio = [num |-> 1, den |-> 2]
             /\ p.meal_count = 0
             /\ p.favorite_cuisines = <<>>
             /\ p.preferred_flavors = <<>>
             /\ p.common_ingredients = <<>>
        ELSE /\ p.home_vs_outside_ratio.den > 0
             /\ p.home_vs_outside_ratio.num * Len(meals_db)
                    = HomeCount(meals_db) * p.home_vs_outside_ratio.den
             /\ HomeCount(meals_db) = Len(meals_db)
                    => p.home_vs_outside_ratio = [num |-> 1, den |-> 1]
             /\ HomeCount(meals_db) = 0
                    => p.home_vs_outside_ratio = [num |-> 0, den |-> 1]

C6_Witness ==
    /\ resp.op = "profile"
    /\ Len(meals_db) = 3
    /\ resp.profile.home_vs_outside_ratio = [num |-> 2, den |-> 3]


----------------------------------------------------------------------------
\* Prompt construction and the agent's context

\* pattern="^(easy|medium|hard)$"
ValidFusionRequest(request) == request.difficulty \in {"easy", "medium", "hard"}

\* the truth value Python gives an Optional[str] / Optional[int] / list
TruthyStr(x) == x # None /\ x[1] # ""
TruthyInt(x) == x # None /\ x[1] # 0
TruthyList(x) == x # <<>>

\* prompt_parts and " ".join(prompt_parts) of generate_fusion_recipe
build_request_prompt(request) ==
    LET base == <<"Create a unique fusion recipe for me.">>
        style == IF TruthyStr(request.fusion_style)
                 THEN <<"Fusion style: " \o request.fusion_style[1]>> ELSE <<>>
        diet == IF TruthyList(request.dietary_restrictions)
                THEN <<"Dietary restrictions: "
                         \o Join(request.dietary_restrictions, ", ")>>
                ELSE <<>>
        level == <<"Difficulty level: " \o request.difficulty>>
        time == IF TruthyInt(request.cooking_time)
                THEN <<"Maximum cooking time: " \o ToString(request.cooking_time[1])
                         \o " minutes">>
                ELSE <<>>
    IN  Join(base \o style \o diet \o level \o time, " ")

\* the prompt of one day of generate_weekly_menu
day_prompt(day) ==
    "Create a unique fusion recipe for " \o day
        \o ". Make it different from typical weekday meals if it's a weekend."

\* UserPreferences(meals=..., taste_profile=...): validation builds a new list
\* of the records, so the model holds the list's value at construction
UserPreferences(meals, taste_profile) ==
    [meals |-> meals, taste_profile |-> taste_profile]

\* x or 'default'
OrElse(x, default) == IF x = "" THEN default ELSE x

\* f"{ratio:.0%}": the percentage rounded half to even
Percent(ratio) ==
    LET n == 100 * ratio.num
        q == n \div ratio.den
        r == n % ratio.den
        rounded == IF 2 * r > ratio.den THEN q + 1
                   ELSE IF 2 * r = ratio.den THEN q + (q % 2)
                   ELSE q
    IN  ToString(rounded) \o "%"

HomeLine(m) ==
    "- " \o m.name \o " (" \o m.cuisine \o "): " \o Join(m.flavors, ", ")

OutsideLine(m) ==
    "- " \o m.name \o " (" \o m.cuisine \o ") at "
        \o (IF TruthyStr(m.restaurant_name) THEN m.restaurant_name[1] ELSE "unknown")
        \o ": " \o Join(m.flavors, ", ")

\* the dynamic system prompt, as the values its template is filled with
add_user_context(prefs) ==
    IF prefs.meals = <<>>
    THEN [new_user |-> TRUE]
    ELSE LET home_meals == Last(OfType(prefs.meals, "home"), 5)
             outside_meals == Last(OfType(prefs.meals, "outside"), 5)
         IN  [new_user |-> FALSE,
              total |-> ToString(prefs.taste_profile.meal_count),
              cuisines |-> OrElse(Join(prefs.taste_profile.favorite_cuisines, ", "),
                                  "Not enough data"),
              flavors |-> OrElse(Join(prefs.taste_profile.preferred_flavors, ", "),
                                 "Not enough data"),
              ingredients |-> OrElse(Join(prefs.taste_profile.common_ingredients, ", "),
                                     "Not enough data"),
              ratio |-> Percent(prefs.taste_profile.home_vs_outside_ratio),
              home |-> OrElse(Join([i \in 1..Len(home_meals) |-> HomeLine(home_meals[i])],
                                   "\n"), "None logged"),
              outside |-> OrElse(Join([i \in 1..Len(outside_meals) |->
                                          OutsideLine(outside_meals[i])], "\n"),
                                 "None logged")]

\* a slip: the agent is handed the live list meals_db
LiveDeps(frame) == [frame.user_prefs EXCEPT !.meals = meals_db]

\* ctx.deps of a run started with deps=user_prefs
RunDeps(frame) == frame.user_prefs

----------------------------------------------------------------------------
\* POST /generate-recipe

FusionRequestRecord(style, restrictions, difficulty, time) ==
    [fusion_style |-> style, dietary_restrictions |-> restrictions,
     difficulty |-> difficulty, cooking_time |-> time]

\* what the model may answer: a FusionRecipe, by its name
Recipes == {"Masala Pizza", "Tandoori Tacos"}

\* the handler up to `await fusion_agent.run(prompt, deps=user_prefs)`
generate_fusion_recipe(request) ==
    /\ gen.pc = "idle"
    /\ IF ~ValidFusionRequest(request)
       THEN gen' = [pc |-> "done", request |-> request,
                    response |-> [status |-> 422, error |-> "ValidationError"]]
       ELSE LET taste_profile == get_taste_profile(meals_db)
                user_prefs == UserPreferences(meals_db, taste_profile)
            IN  gen' = [pc |-> "running",
                        request |-> request,
                        started_with |-> meals_db,
                        taste_profile |-> taste_profile,
                        user_prefs |-> user_prefs,
                        prompt |-> build_request_prompt(request)]
    /\ UNCHANGED <<meals_db, now, adds, removed, before, resp, wk>>

\* inside the run: the agent evaluates its system prompt function on ctx.deps
\* (deps_seen and store_then are history: the deps it read and the store then)
gen_context ==
    /\ gen.pc = "running"
    /\ LET deps == RunDeps(gen)
       IN  gen' = [gen EXCEPT !.pc = "prompted"] @@
                  [deps_seen |-> deps, store_then |-> meals_db,
                   context |-> add_user_context(deps)]
    /\ UNCHANGED <<meals_db, now, adds, removed, before, resp, wk>>

\* the run returns a recipe and the handler answers
gen_return(recipe) ==
    /\ gen.pc = "prompted"
    /\ gen' = [gen EXCEPT !.pc = "done"] @@
              [response |-> [status |-> 200, success |-> TRUE, recipe |-> recipe,
                             taste_profile_used |-> gen.taste_profile]]
    /\ UNCHANGED <<meals_db, now, adds, removed, before, resp, wk>>

\* the run raises and the handler's except clause answers
gen_raise ==
    /\ gen.pc \in {"running", "prompted"}
    /\ gen' = [gen EXCEPT !.pc = "done"] @@
              [response |-> [status |-> 500, error |-> "GenerationError"]]
    /\ UNCHANGED <<meals_db, now, adds, removed, before, resp, wk>>

\* the request is over; the next one may come
gen_next ==
    /\ gen.pc = "done"
    /\ gen' = Idle
    /\ UNCHANGED <<meals_db, now, adds, removed, before, resp, wk>>

GenStep ==
    \/ gen_context
    \/ \E r \in Recipes : gen_return(r)
    \/ gen_raise
    \/ gen_next

----------------------------------------------------------------------------
\* Prompt construction on its own: generate_fusion_recipe on every request
\* body of FusionRequests

FusionRequests ==
    {FusionRequestRecord(s, d, l, t) :
        s \in {None, Some(""), Some("Italian-Indian")},
        d \in {<<>>, <<"vegan">>, <<"vegan", "nut-free">>},
        l \in {"easy", "medium", "hard", "expert"},
        t \in {None, Some(0), Some(30)}}

NextPrompt ==
    \/ \E r \in FusionRequests : generate_fusion_recipe(r)
    \/ GenStep

SpecPrompt == Init /\ [][NextPrompt]_vars

\* the prompt with a clause for every field that is specified
PromptOfSpecified(request) ==
    "Create a unique fusion recipe for me."
        \o (IF request.fusion_style # None
            THEN " Fusion style: " \o request.fusion_style[1] ELSE "")
        \o (IF request.dietary_restrictions # <<>>
            THEN " Dietary restrictions: " \o Join(request.dietary_restrictions, ", ")
            ELSE "")
        \o " Difficulty level: " \o request.difficulty
        \o (IF request.cooking_time # None
            THEN " Maximum cooking time: " \o ToString(request.cooking_time[1])
                     \o " minutes"
            ELSE "")

\* C7: the prompt of a recipe request is the single-space join of the base
\* instruction, a fusion-style clause iff fusion_style is specified, a
\* dietary-restrictions clause iff the list is non-empty, the difficulty
\* clause, and a maximum-cooking-time clause iff cooking_time is specified.
C7_PromptClauses ==
    gen.pc \in {"running", "prompted"} => gen.prompt = PromptOfSpecified(gen.request)

----------------------------------------------------------------------------
\* A recipe request served while meals are added and removed

\* bodies of POST /meals that pass validation
ValidMealInputs == {m \in MealInputs : ValidMealFields(m)}

\* one request body: the defaults
DefaultRequest == FusionRequestRecord(None, <<>>, "medium", None)

NextGen ==
    \/ \E m \in ValidMealInputs : Room(MaxStored, MaxStored) /\ add_meal(m)
    \/ \E i \in 0..(MaxStored - 1) : delete_meal(i)
    \/ generate_fusion_recipe(DefaultRequest)
    \/ GenStep

SpecGen == Init /\ [][NextGen]_vars

\* the request has computed its profile and built its UserPreferences
GenStarted == gen.pc \in {"running", "prompted"} \/ (gen.pc = "done" /\ gen.response.status # 422)

GenSnapshot ==
    /\ GenStarted =>
          /\ gen.taste_profile = get_taste_profile(gen.started_with)
          /\ gen.user_prefs = [meals |-> gen.started_with,
                               taste_profile |-> gen.taste_profile]
    /\ (GenStarted /\ "deps_seen" \in DOMAIN gen) =>
          /\ gen.deps_seen.meals = gen.started_with
          /\ gen.deps_seen.taste_profile = gen.taste_profile
          /\ Len(gen.deps_seen.meals) = gen.deps_seen.taste_profile.meal_count
          /\ gen.context = add_user_context([meals |-> gen.started_with,
                                             taste_profile |-> gen.taste_profile])
    /\ (gen.pc = "done" /\ gen.response.status = 200) =>
          gen.response.taste_profile_used = gen.deps_seen.taste_profile

\* C10: whatever adds and removes are served while a recipe request waits
\* for the model, the meal list its context builder sees and the profile
\* that goes with it are those of the store as the request found it: the
\* list has meal_count entries, the taste_profile_used of the answer is the
\* profile the model was given, and no step of the request changes the store.
C10_GenSnapshot ==
    /\ []GenSnapshot
    /\ [][gen' # gen => meals_db' = meals_db]_vars

\* the context was built after the store had changed under the request
C10_Witness ==
    /\ gen.pc = "done"
    /\ gen.response.status = 200
    /\ Len(gen.started_with) = 2
    /\ Len(gen.store_then) = 1
    /\ meals_db = <<>>

----------------------------------------------------------------------------
\* POST /generate-weekly-menu

days == <<"Monday", "Tuesday", "Wednesday", "Thursday", "Friday", "Saturday", "Sunday">>

\* a slip: the preferences are rebuilt from the store for every day
FreshDeps(frame) == UserPreferences(meals_db, get_taste_profile(meals_db))

\* deps=user_prefs of the day's fusion_agent.run
DayDeps(frame) == frame.user_prefs

\* fusion_agent.run(prompt, deps=user_prefs) for the day after the recipes
\* gathered so far, with the system prompt the agent builds from the deps
\* (after is history: the number of recipes gathered when the call is made)
DayCall(frame, recipes) ==
    [day |-> days[Len(recipes) + 1],
     prompt |-> day_prompt(days[Len(recipes) + 1]),
     deps |-> DayDeps(frame),
     context |-> add_user_context(DayDeps(frame)),
     after |-> Len(recipes)]

\* a slip: the days generated before the failure are returned
WeeklyPartial(frame) ==
    [status |-> 200, success |-> TRUE, weekly_menu |-> frame.recipes]

\* the except clause: HTTPException(500, "Failed to generate weekly menu: ...")
WeeklyError(frame) == [status |-> 500, error |-> "GenerationError"]

\* the handler up to the first `await fusion_agent.run(...)`
generate_weekly_menu ==
    /\ wk.pc = "idle"
    /\ LET taste_profile == get_taste_profile(meals_db)
           frame == [pc |-> "awaiting",
                     started_with |-> meals_db,
                     taste_profile |-> taste_profile,
                     user_prefs |-> UserPreferences(meals_db, taste_profile),
                     recipes |-> <<>>,
                     calls |-> <<>>]
       IN  wk' = [frame EXCEPT !.calls = <<DayCall(frame, <<>>)>>]
    /\ UNCHANGED <<meals_db, now, adds, removed, before, resp, gen>>

\* the day's run returns: its recipe is appended, and the loop goes on to the
\* next day's run or, after the last day, to the answer
wk_day_return(recipe) ==
    /\ wk.pc = "awaiting"
    /\ LET day == wk.calls[Len(wk.calls)].day
           recipes == Append(wk.recipes, [day |-> day, recipe |-> recipe])
       IN  IF Len(recipes) < Len(days)
           THEN wk' = [wk EXCEPT !.recipes = recipes,
                                 !.calls = Append(@, DayCall(wk, recipes))]
           ELSE wk' = [wk EXCEPT !.pc = "done", !.recipes = recipes] @@
                      [response |-> [status |-> 200, success |-> TRUE,
                                     weekly_menu |-> recipes]]
    /\ UNCHANGED <<meals_db, now, adds, removed, before, resp, gen>>

\* the day's run raises
wk_day_raise ==
    /\ wk.pc = "awaiting"
    /\ wk' = [wk EXCEPT !.pc = "done"] @@
             [failed_day |-> wk.calls[Len(wk.calls)].day, response |-> WeeklyError(wk)]
    /\ UNCHANGED <<meals_db, now, adds, removed, before, resp, gen>>

\* the request is over; the next one may come
wk_next ==
    /\ wk.pc = "done"
    /\ wk' = Idle
    /\ UNCHANGED <<meals_db, now, adds, removed, before, resp, gen>>

\* A weekly menu served while meals are added and removed. The handler never
\* looks into a recipe, so one answer of the model stands for all.
WeekRecipes == {"Masala Pizza"}

NextWeekly ==
    \/ \E m \in ValidMealInputs : Room(MaxStored, MaxStored) /\ add_meal(m)
    \/ \E i \in 0..(MaxStored - 1) : delete_meal(i)
    \/ generate_weekly_menu
    \/ \E r \in WeekRecipes : wk_day_return(r)
    \/ wk_day_raise
    \/ wk_next

SpecWeekly == Init /\ [][NextWeekly]_vars

\* C8: one weekly-menu request computes the taste profile once, from the
\* store as it stands before the first day's call, and every day's call is
\* given that profile, whatever adds and removes are served meanwhile.
C8_OneProfile ==
    wk.pc # "idle" =>
        /\ wk.taste_profile = get_taste_profile(wk.started_with)
        /\ \A i \in 1..Len(wk.calls) :
              /\ wk.calls[i].deps.taste_profile = wk.taste_profile
              /\ wk.calls[i].context =
                    add_user_context([meals |-> wk.started_with,
                                      taste_profile |-> wk.taste_profile])

\* all seven calls made, the store changed since the first
C8_Witness ==
    /\ wk.pc # "idle"
    /\ Len(wk.calls) = 7
    /\ get_taste_profile(meals_db) # wk.taste_profile

\* C9: the weekly menu is all or nothing. If a day's call fails the answer
\* is a 500 that carries no recipe of an earlier day; an answer of success
\* has 7 entries, for Monday to Sunday in that order; and each day's call is
\* made only once the call of the day before has returned.
C9_AllOrNothing ==
    wk.pc # "idle" =>
        /\ \A i \in 1..Len(wk.calls) :
              /\ wk.calls[i].after = i - 1
              /\ wk.calls[i].day =
                    <<"Monday", "Tuesday", "Wednesday", "Thursday", "Friday",
                      "Saturday", "Sunday">>[i]
        /\ Len(wk.calls) = Len(wk.recipes) + (IF wk.pc = "awaiting" \/ "failed_day" \in DOMAIN wk THEN 1 ELSE 0)
        /\ (wk.pc = "done" /\ "failed_day" \in DOMAIN wk) =>
              /\ wk.response.status = 500
              /\ "weekly_menu" \notin DOMAIN wk.response
        /\ (wk.pc = "done" /\ wk.response.status = 200) =>
              /\ "failed_day" \notin DOMAIN wk
              /\ Len(wk.response.weekly_menu) = 7
              /\ [i \in 1..7 |-> wk.response.weekly_menu[i].day] =
                    <<"Monday", "Tuesday", "Wednesday", "Thursday", "Friday",
                      "Saturday", "Sunday">>

\* Wednesday's call failed after Monday's and Tuesday's recipes were generated
C9_Witness ==
    /\ wk.pc = "done"
    /\ "failed_day" \in DOMAIN wk
    /\ wk.failed_day = "Wednesday"
    /\ Len(wk.recipes) = 2
    /\ wk.response.status = 500

----------------------------------------------------------------------------
\* The profile analysis on its own: get_taste_profile applied to meal
\* histories

\* the records a history is drawn from: six cuisines, so that a history can
\* hold more cuisines, flavors and ingredients than the profile keeps
ProfileMenu ==
    {MealInputRecord("Butter Chicken", "Indian",
                     <<"chicken", "butter", "tomatoes", "cream">>,
                     <<"creamy", "spicy", "rich">>, "home", None),
     MealInputRecord("Margherita Pizza", "Italian",
                     <<"dough", "tomatoes", "mozzarella", "basil">>,
                     <<"savory", "cheesy">>, "outside", Some("Domino's")),
     MealInputRecord("Pad Thai", "Thai",
                     <<"rice noodles", "shrimp", "peanuts", "tamarind">>,
                     <<"sweet", "sour", "savory">>, "outside", Some("Thai Express")),
     MealInputRecord("Sushi Roll", "Japanese",
                     <<"rice", "nori", "salmon">>,
                     <<"fresh", "umami">>, "outside", None),
     MealInputRecord("Tacos Al Pastor", "Mexican",
                     <<"pork", "onions", "pork">>,
                     <<"spicy", "spicy", "sweet">>, "outside", Some("Taco Bell")),
     MealInputRecord("Kung Pao Chicken", "Chinese",
                     <<"chicken", "peanuts">>,
                     <<>>, "home", None)}

\* three records of three cuisines, with 11 ingredients between them
SampleHistory ==
    <<MealInputRecord("Butter Chicken", "Indian",
                      <<"chicken", "butter", "tomatoes", "cream">>,
                      <<"creamy", "spicy", "rich">>, "home", None),
      MealInputRecord("Margherita Pizza", "Italian",
                      <<"dough", "tomatoes", "mozzarella", "basil">>,
                      <<"savory", "cheesy">>, "outside", Some("Domino's")),
      MealInputRecord("Pad Thai", "Thai",
                      <<"rice noodles", "shrimp", "peanuts", "tamarind">>,
                      <<"sweet", "sour", "savory">>, "outside", Some("Thai Express"))>>

Histories ==
    {SubSeq(SampleHistory, 1, k) \o inputs :
        k \in 0..Len(SampleHistory), inputs \in SeqsUpTo(ProfileMenu, MaxExtra)}

\* the store after the inputs have been added one after the other
Added(inputs) == [i \in 1..Len(inputs) |-> Meal(inputs[i], i - 1)]

InitProfile ==
    /\ meals_db \in {Added(inputs) : inputs \in Histories}
    /\ now = Len(meals_db)
    /\ adds = meals_db
    /\ removed = FALSE
    /\ before = meals_db
    /\ resp = NoResponse
    /\ gen = Idle
    /\ wk = Idle

NextProfile == get_profile

SpecProfile == InitProfile /\ [][NextProfile]_vars

\* every occurrence of a cuisine, a flavor, an ingredient, in store order
CuisineOccurrences(db) == [i \in 1..Len(db) |-> db[i].cuisine]

RECURSIVE FlavorOccurrences(_)
FlavorOccurrences(db) ==
    IF db = <<>> THEN <<>> ELSE Head(db).flavors \o FlavorOccurrences(Tail(db))

RECURSIVE IngredientOccurrences(_)
IngredientOccurrences(db) ==
    IF db = <<>> THEN <<>> ELSE Head(db).ingredients \o IngredientOccurrences(Tail(db))

Occurs(occ, x) == Cardinality({i \in 1..Len(occ) : occ[i] = x})

FirstSeen(occ, x) == CHOOSE i \in 1..Len(occ) : occ[i] = x /\ \A j \in 1..(i - 1) : occ[j] # x

\* r is the first k of the distinct items of occ in ranking order, where x
\* ranks before y if it occurs more often, or as often and is seen first
IsTopRanked(r, occ, k) ==
    LET items == Range(occ)
        count == [x \in items |-> Occurs(occ, x)]
        first == [x \in items |-> FirstSeen(occ, x)]
        RanksBefore(x, y) ==
            \/ count[x] > count[y]
            \/ count[x] = count[y] /\ first[x] < first[y]
    IN  /\ Len(r) = Min(k, Cardinality(items))
        /\ \A i \in 1..Len(r) : r[i] \in items
        /\ \A i, j \in 1..Len(r) : i < j => RanksBefore(r[i], r[j])
        /\ \A x \in items \ Range(r) : \A i \in 1..Len(r) : RanksBefore(r[i], x)

\* C5: the three lists of the profile of a non-empty store are the distinct
\* cuisines, flavors and ingredients by occurrence count descending, equal
\* counts by first appearance in the store, cut to 5, 5 and 10 entries.
C5_TopRanked ==
    (resp.op = "profile" /\ meals_db # <<>>) =>
        /\ IsTopRanked(resp.profile.favorite_cuisines,
                       CuisineOccurrences(meals_db), 5)
        /\ IsTopRanked(resp.profile.preferred_flavors,
                       FlavorOccurrences(meals_db), 5)
        /\ IsTopRanked(resp.profile.common_ingredients,
                       IngredientOccurrences(meals_db), 10)

\* a store of more than 5 cuisines, more than 5 flavors and more than 10
\* ingredients, whose most frequent flavor is not the first one seen
C5_Witness ==
    /\ resp.op = "profile"
    /\ Cardinality(Range(CuisineOccurrences(meals_db))) > 5
    /\ Cardinality(Range(FlavorOccurrences(meals_db))) > 5
    /\ Cardinality(Range(IngredientOccurrences(meals_db))) > 10
    /\ Len(resp.profile.favorite_cuisines) = 5
    /\ Len(resp.profile.common_ingredients) = 10
    /\ resp.profile.preferred_flavors[1] # FlavorOccurrences(meals_db)[1]

=============================================================================
